---- MODULE Spec2Model ----
(***************************************************************************)
(* git-dump-commit: incremental export of a commit history to patch files. *)
(* The model follows src/git-dump-commit.py.  Strings are sequences of     *)
(* one-character strings; the export root DUMP-COMMIT is the empty path    *)
(* and every directory below it is a sequence of path components.          *)
(***************************************************************************)
EXTENDS Integers, Sequences, FiniteSets, TLC

(* ------------------------------ bounds --------------------------------- *)

\* commits ever created in the repository (fresh commit identifiers)
MaxCommits == 3

\* tags ever created in the repository
MaxTags == 3

(* --------------------------- character data ----------------------------- *)

LowerCase == <<"a","b","c","d","e","f","g","h","i","j","k","l","m",
               "n","o","p","q","r","s","t","u","v","w","x","y","z">>

UpperCase == <<"A","B","C","D","E","F","G","H","I","J","K","L","M",
               "N","O","P","Q","R","S","T","U","V","W","X","Y","Z">>

Digits == <<"0","1","2","3","4","5","6","7","8","9">>

Range(s) == { s[i] : i \in 1..Len(s) }

\* the character class [-a-z.A-Z_0-9] of pattern[1]
SafeChars == Range(LowerCase) \cup Range(UpperCase) \cup Range(Digits) \cup {"-", ".", "_"}

\* the lower-case letter of each upper-case letter
ToLower == [c \in Range(UpperCase) |-> LowerCase[CHOOSE i \in 1..26 : UpperCase[i] = c]]

\* str.lower() on one character
LowerChar(c) == IF c \in DOMAIN ToLower THEN ToLower[c] ELSE c

\* str.lower()
RECURSIVE Lower(_)
Lower(s) == IF s = <<>> THEN s ELSE <<LowerChar(Head(s))>> \o Lower(Tail(s))

Drop(s, n) == SubSeq(s, n + 1, Len(s))

Take(s, n) == SubSeq(s, 1, n)

\* s.startswith(p)
StartsWith(s, p) == Len(p) <= Len(s) /\ Take(s, Len(p)) = p

\* str(n) for n >= 0
RECURSIVE Str(_)
Str(n) == IF n < 10 THEN <<Digits[n + 1]>> ELSE Str(n \div 10) \o <<Digits[(n % 10) + 1]>>

\* '0' * n
Zeros(n) == [i \in 1..n |-> "0"]

\* "%0<digit>d" % n
ZeroPad(n, digit) ==
    LET d == Str(n)
    IN  IF Len(d) >= digit THEN d ELSE Zeros(digit - Len(d)) \o d

\* bytes.strip() / str.strip() for blanks
RECURSIVE Strip(_)
Strip(s) ==
    IF s = <<>> THEN s
    ELSE IF Head(s) = " " THEN Strip(Tail(s))
    ELSE IF s[Len(s)] = " " THEN Strip(Take(s, Len(s) - 1))
    ELSE s

(* ----------------------------- file names ------------------------------- *)

PatchOpen == <<"[","P","A","T","C","H">>

DotPatch == <<".","p","a","t","c","h">>

\* index of the first "]" of s at or after position i, 0 when there is none
RECURSIVE FirstClose(_, _)
FirstClose(s, i) ==
    IF i > Len(s) THEN 0 ELSE IF s[i] = "]" THEN i ELSE FirstClose(s, i + 1)

\* pattern[0].sub('', name): ^\[PATCH[^]]*\]
SubPatchPrefix(s) ==
    LET close == FirstClose(s, Len(PatchOpen) + 1)
    IN  IF StartsWith(s, PatchOpen) /\ close > 0 THEN Drop(s, close) ELSE s

\* pattern[1].sub('-', name): [^-a-z.A-Z_0-9]
RECURSIVE SubUnsafe(_)
SubUnsafe(s) ==
    IF s = <<>> THEN s
    ELSE <<IF Head(s) \in SafeChars THEN Head(s) ELSE "-">> \o SubUnsafe(Tail(s))

\* pattern[2].sub('.', name): \.\.\.  (leftmost, non-overlapping)
RECURSIVE SubEllipsis(_)
SubEllipsis(s) ==
    IF s = <<>> THEN s
    ELSE IF StartsWith(s, <<".", ".", ".">>) THEN <<".">> \o SubEllipsis(Drop(s, 3))
    ELSE <<Head(s)>> \o SubEllipsis(Tail(s))

RECURSIVE StripDots(_)
StripDots(s) ==
    IF s # <<>> /\ s[Len(s)] = "." THEN StripDots(Take(s, Len(s) - 1)) ELSE s

\* pattern[3].sub('', name): \.*$|^-|-$
SubEdges(s) ==
    LET t == IF s # <<>> /\ Head(s) = "-" THEN Tail(s) ELSE s
    IN  IF t # <<>> /\ t[Len(t)] = "." THEN StripDots(t)
        ELSE IF t # <<>> /\ t[Len(t)] = "-" THEN Take(t, Len(t) - 1)
        ELSE t

\* pattern[4].sub('-', name): --*
RECURSIVE SubHyphens(_)
SubHyphens(s) ==
    IF s = <<>> THEN s
    ELSE IF Head(s) = "-" /\ Len(s) > 1 /\ s[2] = "-" THEN SubHyphens(Tail(s))
    ELSE <<Head(s)>> \o SubHyphens(Tail(s))

\* the subject line of a rendered patch, made into a name fragment
Sanitize(subject) ==
    SubHyphens(SubEdges(SubEllipsis(SubUnsafe(SubPatchPrefix(Strip(subject))))))

\* a file name cut one character too late
PatchNameCutLate(offset, digit, subject, name_max) ==
    LET name == ZeroPad(offset, digit) \o <<"-">> \o Sanitize(subject) \o DotPatch
    IN  IF Len(name) > name_max THEN Take(name, name_max - 5) \o DotPatch ELSE name

\* the file name of the patch with this offset and subject
PatchName(offset, digit, subject, name_max) ==
    LET name == ZeroPad(offset, digit) \o <<"-">> \o Sanitize(subject) \o DotPatch
    IN  IF Len(name) > name_max THEN Take(name, name_max - 6) \o DotPatch ELSE name

(* ----------------------------- repository ------------------------------- *)

\* subject lines that commits of the repository carry
Subjects == { <<"f","i","x">>, <<"A","d","d"," ","x",".">> }

\* the name of the k-th tag created in the repository
TagPool == << <<"v","1">>, <<"v","2","-","r","c","1">>, <<"v","2">>, <<"v","3">> >>

HEAD == <<"H","E","A","D">>

RECURSIVE Reverse(_)
Reverse(s) == IF s = <<>> THEN s ELSE Reverse(Tail(s)) \o <<Head(s)>>

\* position in history of a revision: a tag name or HEAD
RevPos(history, tagpos, rev) ==
    IF rev = HEAD THEN Len(history)
    ELSE tagpos[CHOOSE i \in 1..Len(tagpos) : TagPool[i] = rev]

\* output lines of: git log --no-merges --pretty=format:%H [start..end]
GitLog(history, tagpos, start, end) ==
    IF start = <<>> /\ end = <<>> THEN Reverse(history)
    ELSE Reverse(SubSeq(history, RevPos(history, tagpos, start) + 1,
                                 RevPos(history, tagpos, end)))

\* output of: git tag --sort=taggerdate, for annotated tags made at different
\* times: the tags in the order in which they were made
GitTag(tagpos) == [i \in 1..Len(tagpos) |-> TagPool[i]]

\* _get_tag('')
GetTag(tagpos) == GitTag(tagpos) \o <<HEAD>>

\* _get_commit_list(start, end)
GetCommitList(history, tagpos, start, end) == Reverse(GitLog(history, tagpos, start, end))

(* ----------------------------- file system ------------------------------ *)

\* DEST_DIR as a path
DestDir == <<>>

\* os.path.join(DEST_DIR, 'HEAD')
HeadDir == <<HEAD>>

\* a file that does not exist
NoFile == <<"nofile">>

\* a file system in which DEST_DIR does not exist yet
EmptyFs == [dirs |-> <<>>, gitdump |-> FALSE, dump_head |-> NoFile, latest_tag |-> NoFile]

\* os.path.exists(path) for a directory path
Exists(f, path) == path \in DOMAIN f.dirs

\* the patch files of all directories, as <<directory, name>> pairs
AllFiles(f) == UNION { { <<d, n>> : n \in DOMAIN f.dirs[d] } : d \in DOMAIN f.dirs }

\* os.mkdir(path)
Mkdir(f, path) == [f EXCEPT !.dirs = (path :> <<>>) @@ f.dirs]

\* os.makedirs(path)
RECURSIVE Makedirs(_, _)
Makedirs(f, path) ==
    IF path = <<>> \/ Exists(f, Take(path, Len(path) - 1)) THEN Mkdir(f, path)
    ELSE Mkdir(Makedirs(f, Take(path, Len(path) - 1)), path)

\* shutil.rmtree(path, ignore_errors=True) for a directory of patch files
Rmtree(f, path) ==
    LET keep == { d \in DOMAIN f.dirs : ~StartsWith(d, path) }
    IN  IF path = DestDir
        THEN EmptyFs
        ELSE [f EXCEPT !.dirs = [d \in keep |-> f.dirs[d]]]

\* shutil.rmtree(os.path.join(DEST_DIR, '.gitdump'), ignore_errors=True)
RmtreeGitdump(f) == [f EXCEPT !.gitdump = FALSE, !.dump_head = NoFile, !.latest_tag = NoFile]

\* os.mkdir(os.path.join(DEST_DIR, '.gitdump'))
MkdirGitdump(f) == [f EXCEPT !.gitdump = TRUE]

\* _init_meta_dir(head_dir)
InitMetaDir(f, head_dir) == MkdirGitdump(Mkdir(RmtreeGitdump(Rmtree(f, head_dir)), head_dir))

\* open(os.path.join(outdir, name), "wb") followed by write(data)
WriteFile(f, outdir, name, data) ==
    [f EXCEPT !.dirs[outdir] = (name :> data) @@ f.dirs[outdir]]

(* --------------------------- version directories ------------------------ *)

\* smallest index at which sub occurs in s, 0 when it does not occur
Find(s, sub) ==
    LET hits == { i \in 1..(Len(s) - Len(sub) + 1) : SubSeq(s, i, i + Len(sub) - 1) = sub }
    IN  IF hits = {} THEN 0 ELSE CHOOSE i \in hits : \A j \in hits : i <= j

\* the release-candidate markers, in the order they are tried
Suffixes == << <<"r","c">>, <<"p","r","e">>, <<"b","e","t","a">> >>

\* the marker chosen by the loop over suffixes; <<>> stands for None
SuffixOf(tag) ==
    LET low == Lower(tag)
        found == { k \in 1..Len(Suffixes) : Find(low, Suffixes[k]) > 0 }
    IN  IF found = {} THEN <<>>
        ELSE Suffixes[CHOOSE k \in found : \A j \in found : k <= j]

\* s.split()[0] for a non-blank s: the first blank-delimited word
FirstWord(s) ==
    LET t == Strip(s)
        blank == Find(t, <<" ">>)
    IN  IF blank = 0 THEN t ELSE Take(t, blank - 1)

\* tag.lower().split(suffix)[0]
SplitVersion(tag) ==
    LET low == Lower(tag)
        suffix == SuffixOf(tag)
    IN  IF suffix = <<>> THEN FirstWord(low) ELSE Take(low, Find(low, suffix) - 1)

\* version after one trailing '-', '_' or '.' is cut
ParentVersion(tag) ==
    LET version == SplitVersion(tag)
    IN  IF version[Len(version)] \in {"-", "_", "."}
        THEN Take(version, Len(version) - 1) ELSE version

\* the directory of a tag below DEST_DIR
OutDir(tag) ==
    LET version == ParentVersion(tag)
    IN  IF tag = HEAD THEN HeadDir
        ELSE IF version # tag THEN <<version, tag>>
        ELSE <<version>>

\* _setup_dump_dir(tag): (done, rc_release, outdir) and the file system it leaves
SetupDumpDir(f, tag) ==
    LET version == ParentVersion(tag)
        outdir == OutDir(tag)
        done == Exists(f, <<version>>) /\ Exists(f, outdir)
    IN  IF tag = HEAD
        THEN [done |-> FALSE, rc_release |-> TRUE, outdir |-> outdir, fs |-> f]
        ELSE [done |-> done,
              rc_release |-> ~(done /\ version = tag),
              outdir |-> outdir,
              fs |-> IF ~Exists(f, <<version>>) THEN Makedirs(f, outdir)
                     ELSE IF ~Exists(f, outdir) THEN Mkdir(f, outdir)
                     ELSE f]

(* ------------------------------ DumpGenerator --------------------------- *)

\* os.pathconf('/tmp', 'PC_NAME_MAX')
PcNameMax == 255

\* the commit ID b'' that no commit has
NoCommit == 0

\* None, and every offset that `if offset:` takes for false
None == 0

\* the attributes set by DumpGenerator.__init__
NewGenerator == [digit |-> 0, offset |-> 1, outdir |-> <<>>,
                 latest_commit_id |-> NoCommit, latest_tag |-> <<>>]

\* the test of DumpGenerator.__init__ and _fast_forward_commit_list
CannotTrack(f, head_dir) == ~Exists(f, head_dir) \/ ~f.gitdump \/ f.dump_head = NoFile

\* the file system after DumpGenerator.__init__(head_dir)
Construct(f, head_dir) == IF CannotTrack(f, head_dir) THEN InitMetaDir(f, head_dir) ELSE f

\* the file system after DumpGenerator.check_new_tag(latest_tag, head_dir)
CheckNewTag(f, latest_tag, head_dir) ==
    IF f.latest_tag = NoFile THEN InitMetaDir(f, head_dir)
    ELSE IF latest_tag # f.latest_tag THEN InitMetaDir(f, head_dir)
    ELSE f

\* config() that leaves the offset where the last range left it
ConfigKeepOffset(g, outdir, patchnum) ==
    [g EXCEPT !.digit = Len(Str(IF patchnum < 1000 THEN 1000 ELSE patchnum)),
              !.outdir = outdir]

\* config() without the floor of 1000 under patchnum
ConfigNoFloor(g, outdir, patchnum) ==
    [g EXCEPT !.digit = Len(Str(patchnum)), !.outdir = outdir, !.offset = 1]

\* DumpGenerator.config(outdir, patchnum)
Config(g, outdir, patchnum) ==
    [g EXCEPT !.digit = Len(Str(IF patchnum < 1000 THEN 1000 ELSE patchnum)),
              !.outdir = outdir,
              !.offset = 1]

\* DumpGenerator.update_offset(offset)
UpdateOffset(g, offset) == [g EXCEPT !.offset = offset]

\* the first line of the patch that 'git show' renders for a commit, in fields
FirstLine(commit_id) == <<"commit", commit_id>>

\* the file system after DumpGenerator.write_metadata()
WriteMetadata(f, g) ==
    LET f1 == IF g.latest_commit_id # NoCommit
              THEN [f EXCEPT !.dump_head = <<g.latest_commit_id, g.offset - 1>>]
              ELSE f
    IN  IF g.latest_tag # <<>> THEN [f1 EXCEPT !.latest_tag = g.latest_tag] ELSE f1

(* ------------------------------ planning -------------------------------- *)

\* fnmatch.filter(files, '0' * i + '{0}-*'.format(offset))
MarkerMatches(files, i, offset) ==
    LET prefix == Zeros(i) \o Str(offset) \o <<"-">>
    IN  { n \in files : StartsWith(n, prefix) }

\* the list `patch` after the loop over range(5)
MarkerPatch(files, offset) ==
    LET tries == { i \in 0..4 : MarkerMatches(files, i, offset) # {} }
    IN  IF tries = {} THEN {}
        ELSE MarkerMatches(files, CHOOSE i \in tries : \A j \in tries : i <= j, offset)

\* commit_list.index(last_commit), 0 when list.index raises ValueError
Index(commit_list, last_commit) ==
    LET hits == { i \in 1..Len(commit_list) : commit_list[i] = last_commit }
    IN  IF hits = {} THEN 0 ELSE CHOOSE i \in hits : \A j \in hits : i <= j

\* what a call of _fast_forward_commit_list leaves: the exception raised
\* ("none" when it returns), the returned pair, the file system, and the
\* branch taken
Outcome(raised, commit_list, offset, f, branch) ==
    [raised |-> raised, commit_list |-> commit_list, offset |-> offset, fs |-> f,
     branch |-> branch]

\* the outcome once the marker file patch[0] is chosen
CheckMarker(commit_list, head_dir, f, last_commit, offset, marker) ==
    LET line == f.dirs[head_dir][marker]
        index == Index(commit_list, last_commit)
    IN  IF Len(line) < 2
        THEN Outcome("IndexError", commit_list, None, f, "marker_unreadable")
        ELSE IF line[2] # last_commit
        THEN Outcome("OSError", commit_list, None, f, "commit_mismatch")
        ELSE IF offset # Len(commit_list)
        THEN Outcome("OSError", commit_list, None, InitMetaDir(f, head_dir), "length_mismatch")
        ELSE IF index = 0
        THEN Outcome("ValueError", commit_list, None, f, "commit_absent")
        ELSE IF offset = Len(commit_list)
        THEN Outcome("none", <<>>, None, f, "up_to_date")
        ELSE Outcome("none", Drop(commit_list, index), offset + 1, f, "fast_forward")

\* _fast_forward_commit_list(commit_list, head_dir): the possible outcomes,
\* one for each file that os.listdir may put first among the matches
FastForwardCommitList(commit_list, head_dir, f) ==
    IF CannotTrack(f, head_dir)
    THEN { Outcome("OSError", commit_list, None, InitMetaDir(f, head_dir), "state_missing") }
    ELSE IF Len(f.dump_head) # 2
    THEN { Outcome("ValueError", commit_list, None, f, "state_malformed") }
    ELSE LET patch == MarkerPatch(DOMAIN f.dirs[head_dir], f.dump_head[2])
         IN  IF patch = {}
             THEN { Outcome("OSError", commit_list, None, InitMetaDir(f, head_dir),
                            "marker_missing") }
             ELSE { CheckMarker(commit_list, head_dir, f, f.dump_head[1], f.dump_head[2],
                                marker) : marker \in patch }

\* the callers' try/except around _fast_forward_commit_list: OSError and
\* ValueError leave commit_list as fetched and set offset to None
CatchPlan(commit_list, out) ==
    IF out.raised \in {"OSError", "ValueError"}
    THEN [out EXCEPT !.commit_list = commit_list, !.offset = None]
    ELSE out

(* ------------------------------- state ---------------------------------- *)

VARIABLES
    all,          \* args.all: single flat export instead of per-tag export
    history,      \* the commit IDs reachable from HEAD, oldest first
    subject,      \* subject[id]: the subject line of each commit ever created
    tagpos,       \* tagpos[k]: the number of commits reachable from the k-th tag
    fs,           \* the directories and files below DEST_DIR
    pc,           \* where the invocation is: idle, lump, loop, dump, metadata,
                  \* done (exit 0), failed (sys.exit(1)), traceback, killed
    gen,          \* dump_generator
    revision,     \* index into revs of the loop of _dump_per_tag, 0 in _dump_in_lump
    commit_list,  \* the commits dump() still has to write
    run,          \* what the current invocation has done so far
    prev,         \* the repository as the last invocation saw it, and how it ended
    peers,        \* the invocations that run side by side on one export root
    probe         \* the arguments and the result of one call of a function

vars == <<all, history, subject, tagpos, fs, pc, gen, revision, commit_list, run, prev,
          peers, probe>>

\* what belongs to no single invocation of its own
aside == <<peers, probe>>

\* no call of a function on its own
NoProbe == [called |-> FALSE]

\* no invocations side by side
NoPeers == <<>>

repo == <<all, history, subject, tagpos>>

NoPrev == [ok |-> FALSE, aborted |-> FALSE, history |-> <<>>, tagpos |-> <<>>]

NoPlan == [branch |-> "none", revision |-> 0, state |-> NoFile, consistent |-> FALSE,
           fetched |-> <<>>, commit_list |-> <<>>, offset |-> 0, emptied |-> FALSE]

NoRun == [rerun |-> FALSE, before |-> <<NoFile, NoFile>>, wrote |-> {}, removed |-> {},
          plan |-> NoPlan, render_failed |-> FALSE, meta_written |-> FALSE,
          last |-> NoPrev, skipped |-> {}]

Stopped == {"idle", "done", "failed", "traceback", "killed"}

\* the exit status of the process, 0 while it runs
ExitStatus == IF pc \in {"failed", "traceback"} THEN 1 ELSE 0

Init ==
    /\ all \in BOOLEAN
    /\ history = <<>>
    /\ subject = <<>>
    /\ tagpos = <<>>
    /\ fs = EmptyFs
    /\ pc = "idle"
    /\ gen = NewGenerator
    /\ revision = 0
    /\ commit_list = <<>>
    /\ run = NoRun
    /\ prev = NoPrev
    /\ peers = NoPeers
    /\ probe = NoProbe

\* the process is gone: only the repository and the files remain
Forget ==
    /\ pc' = "idle"
    /\ gen' = NewGenerator
    /\ revision' = 0
    /\ commit_list' = <<>>
    /\ run' = NoRun

(* ------------------------- changes of the history ----------------------- *)

\* git commit
Commit(subj) ==
    /\ pc \in Stopped
    /\ Len(subject) < MaxCommits
    /\ history' = Append(history, Len(subject) + 1)
    /\ subject' = Append(subject, subj)
    /\ Forget
    /\ UNCHANGED <<all, tagpos, fs, prev>>
    /\ UNCHANGED aside

\* the newest commit is reached by no tag
TipUntagged == Len(history) > (IF tagpos = <<>> THEN 0 ELSE tagpos[Len(tagpos)])

\* git commit --amend, of a commit no tag reaches
Amend(subj) ==
    /\ pc \in Stopped
    /\ Len(subject) < MaxCommits
    /\ TipUntagged
    /\ history' = Append(Take(history, Len(history) - 1), Len(subject) + 1)
    /\ subject' = Append(subject, subj)
    /\ Forget
    /\ UNCHANGED <<all, tagpos, fs, prev>>
    /\ UNCHANGED aside

\* git reset --hard HEAD~1, of a commit no tag reaches that has a parent
ResetHard ==
    /\ pc \in Stopped
    /\ Len(history) > 1
    /\ TipUntagged
    /\ history' = Take(history, Len(history) - 1)
    /\ Forget
    /\ UNCHANGED <<all, subject, tagpos, fs, prev>>
    /\ UNCHANGED aside

\* git tag -a <name> at HEAD; the flat export never reads tags
Tag ==
    /\ pc \in Stopped
    /\ ~all
    /\ history # <<>>
    /\ Len(tagpos) < MaxTags
    /\ tagpos' = Append(tagpos, Len(history))
    /\ Forget
    /\ UNCHANGED <<all, history, subject, fs, prev>>
    /\ UNCHANGED aside

(* ------------------------------ invocation ------------------------------ *)

\* revs of _dump_per_tag
Revs == GetTag(tagpos)

\* the patch files of f that g no longer has
Removed(f, g) == AllFiles(f) \ AllFiles(g)

\* some patch file of head_dir with the offset of DUMP_HEAD records its commit
Consistent(f, head_dir) ==
    /\ ~CannotTrack(f, head_dir)
    /\ Len(f.dump_head) = 2
    /\ \E n \in MarkerPatch(DOMAIN f.dirs[head_dir], f.dump_head[2]) :
          f.dirs[head_dir][n] = FirstLine(f.dump_head[1])

\* what planning a range did: the branch _fast_forward_commit_list took, for
\* which revision, DUMP_HEAD as it was found and whether a marker file agreed
\* with it, the list fetched, the list and offset dump() starts with, and
\* whether head_dir and .gitdump were left empty
Planned(f, out, fetched, g, head_dir) ==
    [branch |-> out.branch, revision |-> revision,
     state |-> f.dump_head, consistent |-> Consistent(f, head_dir),
     fetched |-> fetched, commit_list |-> out.commit_list, offset |-> g.offset,
     emptied |-> /\ out.fs.dirs[head_dir] = <<>>
                 /\ out.fs.dump_head = NoFile
                 /\ out.fs.latest_tag = NoFile]

\* the generator after the callers' `if offset: update_offset(offset)`
WithOffset(g, offset) == IF offset # None THEN UpdateOffset(g, offset) ELSE g

\* the invocation ends before its end
Aborted == [ok |-> FALSE, aborted |-> TRUE, history |-> history, tagpos |-> tagpos]

\* the invocation ends with exit status 0
Complete ==
    /\ pc' = "done"
    /\ prev' = [ok |-> TRUE, aborted |-> FALSE, history |-> history, tagpos |-> tagpos]

\* __main__ up to the planning of the first range: DEST_DIR is made,
\* DumpGenerator is constructed and, per tag, check_new_tag is called
StartRun ==
    /\ pc \in Stopped
    /\ LET f0 == IF Exists(fs, DestDir) THEN fs ELSE Mkdir(fs, DestDir)
           lump == all \/ Len(Revs) = 1
           f1 == IF lump THEN Construct(f0, DestDir)
                 ELSE CheckNewTag(Construct(f0, HeadDir), Revs[Len(Revs) - 1], HeadDir)
       IN  /\ fs' = f1
           /\ pc' = IF lump THEN "lump" ELSE "loop"
           /\ revision' = IF lump THEN 0 ELSE 1
           /\ gen' = IF lump THEN NewGenerator
                     ELSE [NewGenerator EXCEPT !.latest_tag = Revs[Len(Revs) - 1]]
           /\ run' = [NoRun EXCEPT
                        !.rerun = prev.ok /\ prev.history = history /\ prev.tagpos = tagpos,
                        !.before = <<fs.dump_head, fs.latest_tag>>,
                        !.removed = Removed(fs, f1),
                        !.last = prev]
    /\ commit_list' = <<>>
    /\ UNCHANGED <<repo, prev>>
    /\ UNCHANGED aside

\* 'git log' exits with a non-zero status: the branch has no commit yet
GitLogFails == history = <<>>

\* _dump_in_lump after the constructor: fetch, config, plan
DumpInLump ==
    /\ pc = "lump"
    /\ LET fetched == GetCommitList(history, tagpos, <<>>, <<>>)
           g0 == Config(gen, DestDir, Len(fetched))
       IN  IF GitLogFails
           THEN /\ pc' = "failed" /\ prev' = Aborted
                /\ UNCHANGED <<fs, gen, run, commit_list>>
           ELSE
           \E raw \in FastForwardCommitList(fetched, DestDir, fs) :
             LET out == CatchPlan(fetched, raw)
                 g1 == WithOffset(g0, out.offset)
             IN  /\ fs' = out.fs
                 /\ gen' = g1
                 /\ run' = [run EXCEPT !.plan = Planned(fs, out, fetched, g1, DestDir),
                                       !.removed = @ \cup Removed(fs, out.fs)]
                 /\ IF out.raised = "IndexError"
                    THEN pc' = "traceback" /\ prev' = Aborted /\ commit_list' = <<>>
                    ELSE IF out.commit_list # <<>>
                    THEN pc' = "dump" /\ prev' = prev /\ commit_list' = out.commit_list
                    ELSE Complete /\ commit_list' = <<>>
    /\ UNCHANGED <<repo, revision>>
    /\ UNCHANGED aside

\* bytes == str, which Python 3 never takes for true
BytesEqualsStr == FALSE

\* the test for an "empty version" in _dump_per_tag
EmptyVersion(fetched) == Len(fetched) = 1 /\ BytesEqualsStr

\* the loop of _dump_per_tag moves on: to the next revision or, after the
\* last one, to write_metadata
Continue(i) ==
    IF i < Len(Revs) THEN pc' = "loop" /\ revision' = i + 1
    ELSE pc' = "metadata" /\ revision' = i

\* the range that ends at a tag is skipped: LOGGER.info("Skipping ... (already
\* done)") is called when rc_release is false
Skipping(end, rc_release) == [tag |-> end, logged |-> ~rc_release]

\* the body of one iteration of the loop of _dump_per_tag once _setup_dump_dir
\* has returned dir and _get_commit_list has returned fetched
PlanRevision(start, dir, fetched, g0) ==
    IF start = <<>>
    THEN Continue(revision) /\ UNCHANGED <<fs, gen, commit_list, run, prev>>
    ELSE IF dir.done
    THEN /\ Continue(revision)
         /\ run' = [run EXCEPT !.skipped = @ \cup {Skipping(Revs[revision], dir.rc_release)}]
         /\ UNCHANGED <<fs, gen, commit_list, prev>>
    ELSE IF EmptyVersion(fetched)
    THEN Continue(revision) /\ fs' = dir.fs /\ UNCHANGED <<gen, commit_list, run, prev>>
    ELSE \E raw \in FastForwardCommitList(fetched, HeadDir, dir.fs) :
           LET out == CatchPlan(fetched, raw)
               g1 == WithOffset(g0, out.offset)
           IN  /\ fs' = out.fs
               /\ gen' = g1
               /\ run' = [run EXCEPT !.plan = Planned(dir.fs, out, fetched, g1, HeadDir),
                                     !.removed = @ \cup Removed(fs, out.fs)]
               /\ IF out.raised = "IndexError"
                  THEN /\ pc' = "traceback" /\ prev' = Aborted
                       /\ commit_list' = <<>> /\ revision' = revision
                  ELSE IF out.commit_list # <<>>
                  THEN /\ pc' = "dump" /\ prev' = prev
                       /\ commit_list' = out.commit_list /\ revision' = revision
                  ELSE Continue(revision) /\ prev' = prev /\ commit_list' = <<>>

\* one iteration of the loop of _dump_per_tag, up to the call of dump()
NextRevision ==
    /\ pc = "loop"
    /\ LET start == IF revision = 1 THEN <<>> ELSE Revs[revision - 1]
           end == Revs[revision]
           dir == SetupDumpDir(fs, end)
           fetched == GetCommitList(history, tagpos, start, end)
       IN  PlanRevision(start, dir, fetched, Config(gen, dir.outdir, Len(fetched)))
    /\ UNCHANGED repo
    /\ UNCHANGED aside

\* patch.splitlines()[4] of the patch rendered for a commit: the subject line
SubjectLine(commit_id) == <<" ", " ", " ", " ">> \o subject[commit_id]

\* the record of a patch file written by dump()
Written(g, commit_id) ==
    [dir |-> g.outdir, offset |-> g.offset, commit |-> commit_id,
     name |-> PatchName(g.offset, g.digit, SubjectLine(commit_id), PcNameMax)]

\* after dump() returns: write_metadata in _dump_in_lump, the next revision
\* in _dump_per_tag
AfterDump ==
    IF revision = 0 THEN pc' = "metadata" /\ revision' = 0 ELSE Continue(revision)

\* one pass of the loop of DumpGenerator.dump: render a commit and write it
Dump ==
    /\ pc = "dump"
    /\ LET commit_id == Head(commit_list)
           w == Written(gen, commit_id)
       IN  /\ fs' = WriteFile(fs, gen.outdir, w.name, FirstLine(commit_id))
           /\ run' = [run EXCEPT !.wrote = @ \cup {w}]
           /\ commit_list' = Tail(commit_list)
           /\ IF Tail(commit_list) # <<>>
              THEN /\ gen' = [gen EXCEPT !.offset = @ + 1]
                   /\ pc' = "dump" /\ revision' = revision
              ELSE /\ gen' = [gen EXCEPT !.offset = @ + 1, !.latest_commit_id = commit_id]
                   /\ AfterDump
    /\ UNCHANGED <<repo, prev>>
    /\ UNCHANGED aside

\* write_metadata, and the invocation returns
WriteMeta ==
    /\ pc = "metadata"
    /\ fs' = WriteMetadata(fs, gen)
    /\ run' = [run EXCEPT !.meta_written = TRUE]
    /\ Complete
    /\ UNCHANGED <<repo, gen, revision, commit_list>>
    /\ UNCHANGED aside

Next ==
    \/ \E subj \in Subjects : Commit(subj)
    \/ \E subj \in Subjects : Amend(subj)
    \/ ResetHard
    \/ Tag
    \/ StartRun
    \/ DumpInLump
    \/ NextRevision
    \/ Dump
    \/ WriteMeta

\* invocations that run to their end, between changes of the history
Spec == Init /\ [][Next]_vars

(* ----------------------------- interruptions ---------------------------- *)

\* a handler that leaves the loop of dump() instead of the process
BreakOnError(g, commits) ==
    [exit |-> FALSE, gen |-> [g EXCEPT !.latest_commit_id = Head(commits)],
     commit_list |-> <<>>]

\* the handler of CalledProcessError in dump(): sys.exit(1)
ExitOnError(g, commits) == [exit |-> TRUE, gen |-> g, commit_list |-> commits]

\* 'git show' fails for the commit at the head of the list
RenderError ==
    /\ pc = "dump"
    /\ LET r == ExitOnError(gen, commit_list)
       IN  /\ gen' = r.gen
           /\ commit_list' = r.commit_list
           /\ IF r.exit THEN pc' = "failed" /\ revision' = revision ELSE AfterDump
    /\ run' = [run EXCEPT !.render_failed = TRUE]
    /\ prev' = Aborted
    /\ UNCHANGED <<repo, fs>>
    /\ UNCHANGED aside

\* the process is killed between two steps
Kill ==
    /\ pc \in {"lump", "loop", "dump", "metadata"}
    /\ Forget
    /\ prev' = Aborted
    /\ UNCHANGED <<repo, fs>>
    /\ UNCHANGED aside

\* the process is killed in dump() after open(..., "wb") and before write()
KillInWrite ==
    /\ pc = "dump"
    /\ fs' = WriteFile(fs, gen.outdir, Written(gen, Head(commit_list)).name, <<>>)
    /\ Forget
    /\ prev' = Aborted
    /\ UNCHANGED repo
    /\ UNCHANGED aside

\* the process is killed in write_metadata after an open(..., 'w') and before
\* the write() that follows it
KillInMetadata ==
    /\ pc = "metadata"
    /\ \/ /\ gen.latest_commit_id # NoCommit
          /\ fs' = [fs EXCEPT !.dump_head = <<>>]
       \/ /\ gen.latest_tag # <<>>
          /\ fs' = [WriteMetadata(fs, [gen EXCEPT !.latest_tag = <<>>]) EXCEPT !.latest_tag = <<>>]
    /\ Forget
    /\ prev' = Aborted
    /\ UNCHANGED repo
    /\ UNCHANGED aside

NextFail ==
    \/ Next
    \/ RenderError

\* invocations in which 'git show' may fail
SpecFail == Init /\ [][NextFail]_vars

NextAbort ==
    \/ NextFail
    \/ Kill
    \/ KillInWrite
    \/ KillInMetadata

\* invocations that may also be killed
SpecAbort == Init /\ [][NextAbort]_vars

(* ------------------------- invocations side by side --------------------- *)

\* a token of a shell wildcard that stands for one character out of chars
OneOf(chars) == [kind |-> "one", chars |-> chars]

\* the token * of a shell wildcard
Star == [kind |-> "star", chars |-> {}]

\* fnmatch of a name against a wildcard, as 'git tag -l <pattern>' applies it
RECURSIVE Fnmatch(_, _)
Fnmatch(name, pattern) ==
    IF pattern = <<>> THEN name = <<>>
    ELSE IF Head(pattern).kind = "star"
    THEN IF Fnmatch(name, Tail(pattern)) THEN TRUE
         ELSE name # <<>> /\ Fnmatch(Tail(name), pattern)
    ELSE /\ name # <<>>
         /\ Head(name) \in Head(pattern).chars
         /\ Fnmatch(Tail(name), Tail(pattern))

\* s without the elements that the wildcard does not match
RECURSIVE Matching(_, _)
Matching(s, pattern) ==
    IF s = <<>> THEN s
    ELSE (IF Fnmatch(Head(s), pattern) THEN <<Head(s)>> ELSE <<>>)
         \o Matching(Tail(s), pattern)

\* _get_tag(tag_name) for a tag_name other than '': HEAD is not appended
GetTagLike(tags, tag_name) == Matching(GitTag(tags), tag_name)

\* the wildcard *1
EndsWithOne == <<Star, OneOf({"1"})>>

\* the wildcard v[23]
TwoOrThree == <<OneOf({"v"}), OneOf({"2", "3"})>>

\* an invocation 'git dump-commit <tag_name>' that has not started yet
NewPeer(tag_name) ==
    [pc |-> "start", tag_name |-> tag_name, revs |-> <<>>, revision |-> 0,
     gen |-> NewGenerator, commit_list |-> <<>>]

\* the invocation has ended, with exit status 0 or with a traceback
Ended(p) == p.pc \in {"done", "traceback"}

\* a step of an invocation: the file system and the invocation after it
Step(f, p) == [fs |-> f, peer |-> p]

\* the loop of _dump_per_tag moves on, after the last revision to
\* write_metadata
Moved(f, p) ==
    IF p.revision < Len(p.revs)
    THEN Step(f, [p EXCEPT !.pc = "loop", !.revision = @ + 1])
    ELSE Step(f, [p EXCEPT !.pc = "dump_head"])

\* __main__ and _dump_per_tag up to the loop, for a tag_name that matches two
\* tags or more; revs[-2] raises IndexError when it matches one
StartOf(f, p) ==
    LET f0 == IF Exists(f, DestDir) THEN f ELSE Mkdir(f, DestDir)
        revs == GetTagLike(tagpos, p.tag_name)
    IN  IF Len(revs) < 2
        THEN { Step(Construct(f0, HeadDir), [p EXCEPT !.pc = "traceback", !.revs = revs]) }
        ELSE { Step(CheckNewTag(Construct(f0, HeadDir), revs[Len(revs) - 1], HeadDir),
                    [p EXCEPT !.pc = "loop", !.revs = revs, !.revision = 1,
                              !.gen = [NewGenerator EXCEPT !.latest_tag = revs[Len(revs) - 1]]]) }

\* the outcome of planning a range, as the loop of _dump_per_tag takes it up
Taken(p, g0, fetched, raw) ==
    LET out == CatchPlan(fetched, raw)
        g1 == WithOffset(g0, out.offset)
    IN  IF out.raised = "IndexError" THEN Step(out.fs, [p EXCEPT !.pc = "traceback"])
        ELSE IF out.commit_list # <<>>
        THEN Step(out.fs, [p EXCEPT !.pc = "dump", !.gen = g1,
                                    !.commit_list = out.commit_list])
        ELSE Moved(out.fs, [p EXCEPT !.gen = g1])

\* one iteration of the loop of _dump_per_tag, up to the call of dump()
LoopBody(f, p, start, dir, fetched) ==
    IF start = <<>> THEN { Moved(f, p) }
    ELSE IF dir.done THEN { Moved(f, p) }
    ELSE IF EmptyVersion(fetched) THEN { Moved(dir.fs, p) }
    ELSE { Taken(p, Config(p.gen, dir.outdir, Len(fetched)), fetched, raw) :
             raw \in FastForwardCommitList(fetched, HeadDir, dir.fs) }

LoopOf(f, p) ==
    LET start == IF p.revision = 1 THEN <<>> ELSE p.revs[p.revision - 1]
        end == p.revs[p.revision]
    IN  LoopBody(f, p, start, SetupDumpDir(f, end),
                 GetCommitList(history, tagpos, start, end))

\* one pass of the loop of DumpGenerator.dump
DumpOf(f, p) ==
    LET commit_id == Head(p.commit_list)
        f1 == WriteFile(f, p.gen.outdir, Written(p.gen, commit_id).name, FirstLine(commit_id))
        rest == Tail(p.commit_list)
    IN  IF rest # <<>>
        THEN { Step(f1, [p EXCEPT !.gen.offset = @ + 1, !.commit_list = rest]) }
        ELSE { Moved(f1, [p EXCEPT !.gen.offset = @ + 1, !.gen.latest_commit_id = commit_id,
                                   !.commit_list = rest]) }

\* write_metadata: the write of DUMP_HEAD
DumpHeadOf(f, p) ==
    { Step(WriteMetadata(f, [p.gen EXCEPT !.latest_tag = <<>>]),
           [p EXCEPT !.pc = "latest_tag"]) }

\* write_metadata: the write of LATEST_TAG, and the invocation returns
LatestTagOf(f, p) ==
    { Step(WriteMetadata(f, [p.gen EXCEPT !.latest_commit_id = NoCommit]),
           [p EXCEPT !.pc = "done"]) }

\* the steps an invocation can take next
StepsOf(f, p) ==
    CASE p.pc = "start" -> StartOf(f, p)
      [] p.pc = "loop" -> LoopOf(f, p)
      [] p.pc = "dump" -> DumpOf(f, p)
      [] p.pc = "dump_head" -> DumpHeadOf(f, p)
      [] p.pc = "latest_tag" -> LatestTagOf(f, p)
      [] OTHER -> {}

\* invocation i takes its next step, which is the step at position at
PeerTakes(i, at) ==
    /\ peers[i].pc = at
    /\ \E r \in StepsOf(fs, peers[i]) :
         /\ fs' = r.fs
         /\ peers' = [peers EXCEPT ![i] = r.peer]
    /\ UNCHANGED <<repo, pc, gen, revision, commit_list, run, prev, probe>>

PeerStart(i) == PeerTakes(i, "start")

PeerLoop(i) == PeerTakes(i, "loop")

PeerDump(i) == PeerTakes(i, "dump")

PeerWriteDumpHead(i) == PeerTakes(i, "dump_head")

PeerWriteLatestTag(i) == PeerTakes(i, "latest_tag")

\* a repository of four commits with the tags v1, v2-rc1, v2, v3, one on each,
\* an empty export root, and two invocations whose tag names select the
\* ranges v1..v2-rc1 and v2..v3
InitPair ==
    /\ all = FALSE
    /\ history = <<1, 2, 3, 4>>
    /\ subject \in [1..4 -> Subjects]
    /\ tagpos = <<1, 2, 3, 4>>
    /\ fs = EmptyFs
    /\ pc = "idle"
    /\ gen = NewGenerator
    /\ revision = 0
    /\ commit_list = <<>>
    /\ run = NoRun
    /\ prev = NoPrev
    /\ probe = NoProbe
    /\ peers \in { <<NewPeer(EndsWithOne), NewPeer(TwoOrThree)>>,
                   <<NewPeer(TwoOrThree), NewPeer(EndsWithOne)>> }

NextPair ==
    \/ \E i \in DOMAIN peers : PeerStart(i)
    \/ \E i \in DOMAIN peers : PeerLoop(i)
    \/ \E i \in DOMAIN peers : PeerDump(i)
    \/ \E i \in DOMAIN peers : PeerWriteDumpHead(i)
    \/ \E i \in DOMAIN peers : PeerWriteLatestTag(i)

\* two invocations on different ranges, their steps interleaved
SpecPair == InitPair /\ [][NextPair]_vars

\* the file systems an invocation can leave when it runs alone to its end
RECURSIVE Alone(_, _)
Alone(f, p) ==
    IF Ended(p) THEN {f}
    ELSE UNION { Alone(r.fs, r.peer) : r \in StepsOf(f, p) }

\* the file systems left by invocation i run to its end and then invocation j
OneAfterOther(i, j) ==
    UNION { Alone(f, NewPeer(peers[j].tag_name)) :
              f \in Alone(EmptyFs, NewPeer(peers[i].tag_name)) }

\* C11: when two invocations on different ranges have ended, none ended with
\* a traceback and the export root is as one of the two orders of running
\* them one after the other leaves it
C11_DisjointRangesSerial ==
    (peers # NoPeers /\ \A i \in DOMAIN peers : Ended(peers[i])) =>
        /\ \A i \in DOMAIN peers : peers[i].pc = "done"
        /\ fs \in OneAfterOther(1, 2) \cup OneAfterOther(2, 1)

(* --------------------------- calls on their own ------------------------- *)

\* the process with nothing but the export root made by __main__
Fresh ==
    /\ all = FALSE
    /\ history = <<>>
    /\ subject = <<>>
    /\ tagpos = <<>>
    /\ fs = Mkdir(EmptyFs, DestDir)
    /\ pc = "idle"
    /\ gen = NewGenerator
    /\ revision = 0
    /\ commit_list = <<>>
    /\ run = NoRun
    /\ prev = NoPrev
    /\ peers = NoPeers

\* the longest tag name built from TagChars
MaxTagLen == 3

\* characters of tag names: letters of the markers in both cases, a digit and
\* a separator
TagChars == {"v", "V", "1", "-", "r", "c", "R", "p", "e"}

\* the strings over chars of length n
RECURSIVE Words(_, _)
Words(chars, n) ==
    IF n = 0 THEN { <<>> }
    ELSE { <<c>> \o w : c \in chars, w \in Words(chars, n - 1) }

\* tag names: the short ones over TagChars that git accepts (no leading '-')
\* and some longer ones
TagNames ==
    { t \in UNION { Words(TagChars, n) : n \in 1..MaxTagLen } : Head(t) # "-" }
    \cup { HEAD, <<"v","2","-","r","c","1">>, <<"v","2",".","0","_","B","e","t","a">>,
           <<"1",".","0","-","p","r","e","-","r","c","2">>, <<"b","e","t","a">>,
           <<"v","1",".","0","_">>, <<"R","e","l","e","a","s","e","_","1">> }

\* tag.lower().split(suffix)[0] is '', for which version[-1] raises IndexError
VersionEmpty(tag) == SplitVersion(tag) = <<>>

InitDir ==
    /\ Fresh
    /\ probe \in { [called |-> FALSE, tag |-> t] : t \in TagNames }

\* _setup_dump_dir(tag) is called
SetupDir ==
    /\ ~probe.called
    /\ IF probe.tag # HEAD /\ VersionEmpty(probe.tag)
       THEN /\ probe' = [called |-> TRUE, tag |-> probe.tag, raised |-> "IndexError",
                         outdir |-> <<>>]
            /\ fs' = fs
       ELSE /\ probe' = [called |-> TRUE, tag |-> probe.tag, raised |-> "none",
                         outdir |-> SetupDumpDir(fs, probe.tag).outdir]
            /\ fs' = SetupDumpDir(fs, probe.tag).fs
    /\ UNCHANGED <<repo, pc, gen, revision, commit_list, run, prev, peers>>

\* one call of _setup_dump_dir on an export root without version directories
SpecDir == InitDir /\ [][SetupDir]_vars

\* the marker of the claim: the first of rc, pre, beta that the tag contains,
\* compared without regard to case; <<>> when it contains none
MarkerOf(tag) == SuffixOf(tag)

\* the tag cut where the marker starts, in the letters of the tag itself,
\* without one trailing '-', '_' or '.'
CutAtMarker(tag) ==
    LET cut == Take(tag, Find(Lower(tag), MarkerOf(tag)) - 1)
    IN  IF cut # <<>> /\ cut[Len(cut)] \in {"-", "_", "."}
        THEN Take(cut, Len(cut) - 1) ELSE cut

\* C12: HEAD maps to <root>/HEAD; a tag without marker maps to <root>/<tag>; a
\* tag with a marker maps to <root>/<parentVersion>/<tag>, the parent version
\* being the tag cut at the marker without one trailing separator
C12_DirectoryByTagClass ==
    probe.called =>
        /\ probe.raised = "none"
        /\ probe.outdir = IF probe.tag = HEAD THEN HeadDir
                          ELSE IF MarkerOf(probe.tag) = <<>> THEN <<probe.tag>>
                          ELSE <<CutAtMarker(probe.tag), probe.tag>>

\* the longest word that subjects are built from
MaxWordLen == 2

\* characters of subjects: a letter, the path separator, and characters that
\* the patterns of dump() treat specially
SubjectChars == {"a", "/", ".", "-", " ", "]"}

\* w repeated k times
RECURSIVE Repeat(_, _)
Repeat(w, k) ==
    IF k = 0 THEN <<>>
    ELSE IF k = 1 THEN w
    ELSE Repeat(w, k \div 2) \o Repeat(w, k - (k \div 2))

\* how often a word is repeated
Repeats == 1..5

\* values of os.pathconf('/tmp', 'PC_NAME_MAX'): the least that POSIX allows
\* and the one of most file systems
NameMaxima == {14, PcNameMax}

\* subjects: short words, runs of them, and a mail subject
LongSubjects ==
    { Repeat(w, k) : w \in UNION { Words(SubjectChars, n) : n \in 1..MaxWordLen },
                     k \in Repeats }
    \cup { <<"[","P","A","T","C","H"," ","1","/","2","]"," ">> \o Repeat(<<"a","/","b"," ">>, k) :
             k \in {1, 3} }

\* the number of commits of a range and the offset of one of them
Positions == { <<1, 1>>, <<999, 999>>, <<1000, 7>>, <<1000, 1000>>, <<12345, 12345>> }

\* line 4 of the patch that 'git show' renders for a commit with this subject
Rendered(subj) == <<" ", " ", " ", " ">> \o subj

InitName ==
    /\ Fresh
    /\ probe \in { [called |-> FALSE, subject |-> subj, patchnum |-> pos[1], offset |-> pos[2],
                    name_max |-> max] :
                     subj \in LongSubjects, pos \in Positions, max \in NameMaxima }

\* dump() names the patch of a commit after config(outdir, patchnum) and
\* offset - 1 earlier patches
NameCommit ==
    /\ ~probe.called
    /\ LET g == UpdateOffset(Config(gen, DestDir, probe.patchnum), probe.offset)
       IN  /\ gen' = g
           /\ probe' = [called |-> TRUE, subject |-> probe.subject,
                        patchnum |-> probe.patchnum, offset |-> probe.offset,
                        name_max |-> probe.name_max,
                        name |-> PatchName(g.offset, g.digit, Rendered(probe.subject),
                                           probe.name_max)]
    /\ UNCHANGED <<repo, fs, pc, revision, commit_list, run, prev, peers>>

\* one file name made by dump()
SpecName == InitName /\ [][NameCommit]_vars

\* s ends with p
EndsWith(s, p) == Len(p) <= Len(s) /\ Drop(s, Len(s) - Len(p)) = p

\* the length the name would have if dump() never cut it
UncutLength ==
    gen.digit + 1 + Len(Sanitize(Rendered(probe.subject))) + Len(DotPatch)

\* C13: a generated file name is never longer than PC_NAME_MAX and holds no
\* path separator; a name that had to be cut has exactly that length and ends
\* with ".patch"
C13_NameLength ==
    (probe.called /\ "name" \in DOMAIN probe) =>
        /\ Len(probe.name) <= probe.name_max
        /\ "/" \notin Range(probe.name)
        /\ UncutLength > probe.name_max =>
             Len(probe.name) = probe.name_max /\ EndsWith(probe.name, DotPatch)

\* a subject with path separators gave a name that had to be cut
C13_Witness ==
    /\ probe.called /\ "name" \in DOMAIN probe
    /\ UncutLength > probe.name_max
    /\ "/" \in Range(probe.subject)

(* ------------------------ the files of one target ------------------------ *)

\* lengths of the commit list that dump() is given
ListLengths == {1, 12, 1001, 10001}

\* the offsets after which the order of names could break
Marks == {1, 9, 10, 99, 100, 999, 1000, 9999, 10000}

\* the characters of a sanitized name in the order of their code points
CodePoints == <<"-", ".">> \o Digits \o UpperCase \o <<"_">> \o LowerCase

Ord(c) == CHOOSE i \in 1..Len(CodePoints) : CodePoints[i] = c

\* a < b for str: the order in which sorted(os.listdir()) and ls put names
RECURSIVE Before(_, _)
Before(a, b) ==
    IF a = <<>> THEN b # <<>>
    ELSE IF b = <<>> THEN FALSE
    ELSE IF Head(a) # Head(b) THEN Ord(Head(a)) < Ord(Head(b))
    ELSE Before(Tail(a), Tail(b))

\* 10 ** n
RECURSIVE Pow10(_)
Pow10(n) == IF n = 0 THEN 1 ELSE 10 * Pow10(n - 1)

NoName == [offset |-> 0, name |-> <<>>]

InitTarget ==
    /\ Fresh
    /\ probe \in { [called |-> FALSE, patchnum |-> n, left |-> n,
                    earlier |-> NoName, latest |-> NoName] : n \in ListLengths }

\* config(outdir, len(commit_list)) before the commits of a target are dumped
ConfigTarget ==
    /\ ~probe.called
    /\ gen' = Config(gen, DestDir, probe.patchnum)
    /\ probe' = [probe EXCEPT !.called = TRUE]
    /\ UNCHANGED <<repo, fs, pc, revision, commit_list, run, prev, peers>>

\* one pass of the loop of dump() on a commit with this subject; an observer
\* keeps the name written last and the name written at one of the Marks
DumpNext(subj) ==
    /\ probe.called
    /\ probe.left > 0
    /\ LET name == PatchName(gen.offset, gen.digit, Rendered(subj), PcNameMax)
       IN  /\ probe' = [probe EXCEPT
                          !.left = @ - 1,
                          !.earlier = IF probe.latest.offset \in Marks
                                      THEN probe.latest ELSE @,
                          !.latest = [offset |-> gen.offset, name |-> name]]
           /\ gen' = [gen EXCEPT !.offset = @ + 1]
    /\ UNCHANGED <<repo, fs, pc, revision, commit_list, run, prev, peers>>

NextTarget ==
    \/ ConfigTarget
    \/ \E subj \in Subjects : DumpNext(subj)

\* the names of the files written to one target by one call of dump()
SpecTarget == InitTarget /\ [][NextTarget]_vars

\* C14: the digit width configured for a target is at least 4, every offset
\* written is below 10^width, and of two files written to the target the one
\* with the smaller offset comes first in the lexicographic order of names
C14_NamesOrdered ==
    (probe.called /\ "latest" \in DOMAIN probe) =>
        /\ gen.digit >= 4
        /\ probe.latest.offset < Pow10(gen.digit)
        /\ (probe.earlier # NoName /\ probe.latest # NoName) =>
             /\ probe.earlier.offset < probe.latest.offset
             /\ Before(probe.earlier.name, probe.latest.name)

\* the 10000th file of a target is written after the 9999th
C14_Witness ==
    /\ probe.called /\ "latest" \in DOMAIN probe
    /\ probe.earlier.offset = 9999
    /\ probe.latest.offset = 10000
    /\ gen.digit = 5

(* ------------------------------ properties ------------------------------ *)

\* the value of a character that is a decimal digit
DigitValue(c) == (CHOOSE i \in 1..10 : Digits[i] = c) - 1

\* the offset that the name of a patch file starts with
RECURSIVE PrefixValue(_, _)
PrefixValue(name, acc) ==
    IF name = <<>> \/ Head(name) \notin Range(Digits) THEN acc
    ELSE PrefixValue(Tail(name), 10 * acc + DigitValue(Head(name)))

NameOffset(name) == PrefixValue(name, 0)

\* the directory whose state DUMP_HEAD tracks in the current invocation
TrackedDir == IF revision = 0 THEN DestDir ELSE HeadDir

\* the commits of the range that ends at the i-th revision, oldest first
RangeOf(i) == GetCommitList(history, tagpos, Revs[i - 1], Revs[i])

\* directory dir holds a patch file that records the commit
HasPatch(dir, commit_id) ==
    /\ Exists(fs, dir)
    /\ \E n \in DOMAIN fs.dirs[dir] : fs.dirs[dir][n] = FirstLine(commit_id)

\* the invocation in progress is the flat export (_dump_in_lump)
InLump == revision = 0

\* C1: a complete run that follows a complete run over an unchanged history
\* writes no patch file, deletes none, and leaves DUMP_HEAD and LATEST_TAG with
\* the contents they had
C1_Idempotent ==
    (pc = "done" /\ run.rerun) =>
        /\ run.wrote = {}
        /\ run.removed = {}
        /\ <<fs.dump_head, fs.latest_tag>> = run.before

\* C2: when the list L dumped and persisted by the last complete run has
\* grown by k >= 1 commits, the flat export plans exactly the k new commits
\* from offset Len(L) + 1, writes exactly the offsets Len(L) + 1 .. Len(L) + k
\* and deletes no file
C2_AppendOnly ==
    LET L == run.last.history
    IN  ( /\ pc = "done" /\ InLump /\ run.last.ok
          /\ L # <<>> /\ Len(history) > Len(L) /\ Take(history, Len(L)) = L
          /\ run.before[1] = <<L[Len(L)], Len(L)>> )
        => /\ run.plan.commit_list = Drop(history, Len(L))
           /\ run.plan.offset = Len(L) + 1
           /\ { w.offset : w \in run.wrote } = (Len(L) + 1)..Len(history)
           /\ run.removed = {}

\* C3: after a complete run that follows an interrupted run over the same
\* history, every commit of every revision range has a patch file in the
\* directory of its range
C3_NothingDropped ==
    ( /\ pc = "done" /\ run.last.aborted
      /\ run.last.history = history /\ run.last.tagpos = tagpos )
    => IF InLump
       THEN \A k \in 1..Len(history) : HasPatch(DestDir, history[k])
       ELSE \A i \in 2..Len(Revs) :
              \A k \in 1..Len(RangeOf(i)) : HasPatch(OutDir(Revs[i]), RangeOf(i)[k])

\* the last planning was for the range whose directory DUMP_HEAD tracks
PlannedTracked == run.plan.branch # "none" /\ run.plan.revision \in {0, Len(Revs)}

\* every patch file of the tracked directory was written by this invocation
OnlyNewFiles ==
    \A n \in DOMAIN fs.dirs[TrackedDir] :
        \E w \in run.wrote : w.dir = TrackedDir /\ w.name = n

\* C4: when DUMP_HEAD agrees with its marker file and its commit is not in
\* the list fetched, whatever the length of the list, planning returns the
\* whole list with offset 1 and no patch file written earlier is left
C4_RewrittenHistory ==
    ( /\ PlannedTracked /\ pc \in {"dump", "metadata", "done"}
      /\ run.plan.consistent
      /\ run.plan.state[1] \notin Range(run.plan.fetched) )
    => /\ run.plan.commit_list = run.plan.fetched
       /\ run.plan.offset = 1
       /\ OnlyNewFiles

\* the branches of planning that find the persisted state inconsistent
Inconsistencies ==
    {"state_missing", "state_malformed", "marker_missing", "commit_mismatch",
     "length_mismatch"}

\* C5: every kind of inconsistency makes planning leave the tracked
\* directory and .gitdump empty and return the whole list with offset 1
C5_Reinitialize ==
    run.plan.branch \in Inconsistencies =>
        /\ run.plan.emptied
        /\ run.plan.commit_list = run.plan.fetched
        /\ run.plan.offset = 1

\* C6: after a complete run, if DUMP_HEAD exists its offset and commit are
\* those of some patch file of the tracked directory
C6_MarkerExists ==
    (pc = "done" /\ fs.dump_head # NoFile) =>
        /\ Len(fs.dump_head) = 2
        /\ \E n \in DOMAIN fs.dirs[TrackedDir] :
             /\ NameOffset(n) = fs.dump_head[2]
             /\ fs.dirs[TrackedDir][n] = FirstLine(fs.dump_head[1])

\* C7: after a complete run no directory holds two patch files with the
\* same offset
C7_OneFilePerOffset ==
    pc = "done" =>
        \A d \in DOMAIN fs.dirs : \A m, n \in DOMAIN fs.dirs[d] :
            NameOffset(m) = NameOffset(n) => m = n

\* C8: no content of DUMP_HEAD or of the marker file makes a run end with an
\* uncaught exception
C8_NeverFatal == pc # "traceback"

\* C9: once rendering a commit has failed the run has ended with a non-zero
\* exit status, no patch file of this run is for that commit or a later one
\* of the batch, the range planned last is the one that failed, and
\* write_metadata was not called
C9_FailureStops ==
    run.render_failed =>
        /\ pc = "failed"
        /\ ExitStatus = 1
        /\ \A w \in run.wrote : w.commit \notin Range(commit_list)
        /\ run.plan.revision = revision
        /\ ~run.meta_written
        /\ fs.dump_head \in {run.before[1], NoFile}

\* a run failed on the second commit of a batch with a later range to come
C9_Witness ==
    /\ run.render_failed
    /\ revision > 0 /\ revision < Len(Revs)
    /\ run.wrote # {}
    /\ fs.dump_head # run.before[1]

\* the step plans a revision range whose commit list is empty
PlansEmptyRange ==
    /\ pc = "loop" /\ revision > 1
    /\ ~SetupDumpDir(fs, Revs[revision]).done
    /\ RangeOf(revision) = <<>>

\* C10: processing a range without commits writes no patch file, keeps every
\* existing directory with its files, keeps DUMP_HEAD and LATEST_TAG, and
\* the run goes on
C10_EmptyRangeSkipped ==
    [][ PlansEmptyRange =>
          /\ run'.wrote = run.wrote
          /\ \A d \in DOMAIN fs.dirs : d \in DOMAIN fs'.dirs /\ fs'.dirs[d] = fs.dirs[d]
          /\ fs'.dump_head = fs.dump_head
          /\ fs'.latest_tag = fs.latest_tag
          /\ pc' \in {"loop", "metadata", "done"} ]_vars

\* the HEAD target: its directory, its patch files and the state persisted for it
HeadTarget(f) ==
    [exists |-> Exists(f, HeadDir),
     files |-> IF Exists(f, HeadDir) THEN f.dirs[HeadDir] ELSE <<>>,
     gitdump |-> f.gitdump, dump_head |-> f.dump_head, latest_tag |-> f.latest_tag]

\* the invocation is at the revision range of a tag other than HEAD
AtTagRange == pc \in {"loop", "dump"} /\ revision \in 1..(Len(Revs) - 1)

\* planning and dumping the range of a tag leave the HEAD target alone
TagRangeLeavesHead == AtTagRange => HeadTarget(fs') = HeadTarget(fs)

\* the commit that write_metadata records for HEAD is one of the range that
\* ends at HEAD
HeadStateFromHeadRange ==
    (pc = "metadata" /\ revision >= 1 /\ fs'.dump_head # fs.dump_head) =>
        fs'.dump_head[1] \in Range(RangeOf(Len(Revs)))

\* C15: in per-tag mode, planning and dumping the revision range of a tag
\* other than HEAD leaves the HEAD directory, its patch files and the state
\* persisted for it unchanged, and the state persisted at the end of the run
\* comes from the range that ends at HEAD
C15_TargetLocal == [][TagRangeLeavesHead /\ HeadStateFromHeadRange]_vars

\* the directory holds the commits of the list at the offsets 1..Len(list),
\* one file for each, and no other file
HoldsExactly(dir, list) ==
    /\ Exists(fs, dir)
    /\ Cardinality(DOMAIN fs.dirs[dir]) = Len(list)
    /\ \A k \in 1..Len(list) :
         \E n \in DOMAIN fs.dirs[dir] :
            NameOffset(n) = k /\ fs.dirs[dir][n] = FirstLine(list[k])

\* the last complete run saw every tag but the newest, and history has only
\* grown since
NewestTagAdded ==
    /\ run.last.ok
    /\ Len(run.last.tagpos) >= 1
    /\ Len(tagpos) = Len(run.last.tagpos) + 1
    /\ Take(tagpos, Len(run.last.tagpos)) = run.last.tagpos
    /\ Len(history) >= Len(run.last.history)
    /\ Take(history, Len(run.last.history)) = run.last.history

\* the directories of the tags before the newest
EarlierTagDirs == { OutDir(Revs[i]) : i \in 1..(Len(Revs) - 2) }

\* C16: when a complete per-tag run follows a complete run and the addition
\* of a new newest tag T after the tag P, the directory of T holds exactly the
\* commits of (P, T] at offsets 1..n, the HEAD directory holds exactly the
\* commits of (T, HEAD] at offsets 1..m, the directories of earlier tags are
\* unchanged and LATEST_TAG records T
C16_ResumeAfterNewTag ==
    (pc = "done" /\ ~InLump /\ NewestTagAdded) =>
        LET t == Len(Revs) - 1
        IN  /\ HoldsExactly(OutDir(Revs[t]), RangeOf(t))
            /\ HoldsExactly(HeadDir, RangeOf(t + 1))
            /\ \A w \in run.wrote : w.dir \notin EarlierTagDirs \ {OutDir(Revs[t])}
            /\ \A r \in run.removed : r[1] \notin EarlierTagDirs \ {OutDir(Revs[t])}
            /\ fs.latest_tag = Revs[t]

\* a tag without a pre-release marker
Stable(tag) == SuffixOf(tag) = <<>>

\* C17: when the directory of a stable tag exists already its range is
\* skipped and nothing is logged; when the directory of a pre-release tag
\* exists already this is logged; in both cases no file of the directory is
\* written or removed
C17_SkipExisting ==
    \A s \in run.skipped :
        /\ Stable(s.tag) => ~s.logged
        /\ ~Stable(s.tag) => s.logged
        /\ \A w \in run.wrote : w.dir # OutDir(s.tag)
        /\ \A r \in run.removed : r[1] # OutDir(s.tag)

\* the list fetched for the range whose patches go to the directory
FetchedFor(dir) ==
    IF InLump THEN GetCommitList(history, tagpos, <<>>, <<>>)
    ELSE LET i == CHOOSE i \in 2..Len(Revs) : OutDir(Revs[i]) = dir
         IN  RangeOf(i)

\* C18: every patch file written carries, in its record and in its name, the
\* 1-based position of its commit in the list fetched for its range
C18_OffsetIsPosition ==
    \A w \in run.wrote :
        /\ w.offset \in 1..Len(FetchedFor(w.dir))
        /\ FetchedFor(w.dir)[w.offset] = w.commit
        /\ NameOffset(w.name) = w.offset

\* one run wrote the commits of two ranges, each from offset 1
C18_Witness ==
    /\ pc = "done"
    /\ \E v, w \in run.wrote :
         /\ v.dir # w.dir /\ v.dir # HeadDir /\ w.dir = HeadDir
         /\ v.offset = 1 /\ w.offset = 1

\* the invocation is the first one on the export root
FirstRun == run.last = NoPrev /\ run.before = <<NoFile, NoFile>>

\* C19: after a complete per-tag run on an empty export root every commit
\* reachable from HEAD has a patch file in some target directory, the commits
\* up to the oldest tag included
C19_ExportComplete ==
    (pc = "done" /\ ~InLump /\ FirstRun) =>
        \A k \in 1..Len(history) :
            \E dir \in DOMAIN fs.dirs : HasPatch(dir, history[k])

(* ------------------------------ convergence ----------------------------- *)

\* the operator starts an invocation whenever none runs
Starts == pc \in Stopped /\ pc' \in {"lump", "loop"}

\* a process that runs goes on to the next part of the program
Proceeds ==
    /\ pc \notin Stopped
    /\ pc' \in {"loop", "dump", "metadata", "done", "failed", "traceback"}

\* complete invocations again and again, between changes of the history
SpecRepeat == Spec /\ WF_pc(Starts) /\ WF_pc(Proceeds)

\* the invocation that has ended wrote no file and changed no state
NoOp ==
    /\ run.wrote = {}
    /\ run.removed = {}
    /\ <<fs.dump_head, fs.latest_tag>> = run.before

\* C20: once the history stops changing, repeated complete runs reach a run
\* that writes no file and changes no state, and every later run is such a
\* run as well
C20_Converges ==
    <>[][UNCHANGED repo]_vars => <>[](pc = "done" => NoOp)

====
